---- MODULE Spec2Model ----
(***************************************************************************)
(* Model of src/pytorch/native/pytorch_distributed_run_example.py: one     *)
(* process per rank runs main(); the processes meet only in the            *)
(* collectives of torch.distributed (init_process_group, barrier, DDP's    *)
(* gradient all-reduce inside backward, all_reduce) and share only the     *)
(* output path on the filesystem.                                          *)
(*                                                                        *)
(* A process is named by its launcher index 0 .. nprocs-1.  The resolved  *)
(* identity (local_rank, global_rank, world_size) is what main() reads    *)
(* from the environment / command line.  Floating point sums are modelled *)
(* by exact integer sums.                                                  *)
(***************************************************************************)
EXTENDS Integers, Sequences, FiniteSets, TLC

\* ------------------------------------------------------------------ bounds
MaxProcs == 2
MaxEpochs == 2
MaxSteps == 2
MaxValSamples == 3
\* --batch-size of the run: one less than the largest validation shard, so that a
\* shard can end in a short last batch
BatchSize == MaxValSamples - 1

RECURSIVE Fact(_)
Fact(n) == IF n <= 1 THEN 1 ELSE n * Fact(n - 1)

\* per-sample validation losses are multiples of LossUnit, so that the mean over a
\* batch of at most BatchSize samples is a whole number
LossUnit == Fact(BatchSize)

VARIABLES
    \* launch configuration
    nprocs,            \* number of processes the launcher started
    use_older_api,     \* args.use_older_api
    environ,           \* per process: os.environ restricted to the names main() reads
    argv,              \* per process: the --local_rank argument, if given
    no_validation,     \* per process: args.no_validation
    num_epochs,        \* args.num_epochs
    n_batches,         \* len(trainloader) on every rank (DistributedSampler pads shards)
    logging_interval,  \* args.logging_interval
    n_valsamples,      \* samples of the validation shard of every rank
    val_losses,        \* losses the model can have on a validation sample
    train_losses,      \* values loss.item() can take in a training step
    \* per-process program state
    pc,                \* position in main()
    err,               \* the exception that ended the process, "none" otherwise
    local_rank, global_rank, world_size,   \* <<>> while unbound / None, <<n>> otherwise
    coll,              \* sequence of collectives the process has issued so far
    epoch,             \* loop variable of line 136
    step,              \* batches enumerate(trainloader) has yielded in this epoch
    i,                 \* loop variable of line 152 (-1 while unbound)
    running_loss,      \* line 147 / 177
    running_valloss,   \* line 190 / 199 / 205
    n_valiter,         \* line 191 / 206
    valinfo,           \* the tensor of line 203, reduced in place by line 204
    set_epoch_train,   \* last epoch given to the training sampler (-1: never)
    set_epoch_val,     \* last epoch given to the validation sampler (-1: never)
    opt_steps,         \* optimizer steps applied so far
    \* the process group
    red,               \* all_reduce in flight: [k: index of the collective, v: sum so far]
    \* the filesystem
    fs_path,           \* args.output_path: "absent", "dir" or "file"
    model_file,        \* model.pth: "absent", "partial" or "written"
    n_saves,           \* completed torch.save calls, system-wide
    \* history (not program state)
    fs_checked,        \* processes that tested the output path
    fs_mutated,        \* processes that created the directory or wrote into it
    val_local,         \* per process: <<sum of batch losses, batches>> of its last local pass
    val_truth,         \* per process: <<sum of sample losses, samples>> of its last local pass
    reports,           \* per process: what it printed about the loss in its current epoch
    losses             \* per process: the values loss.item() gave it in its current epoch

vars == << nprocs, use_older_api, environ, argv, no_validation, num_epochs, n_batches,
           logging_interval, n_valsamples, val_losses, train_losses, pc, err, local_rank, global_rank, world_size,
           coll, epoch, step, i, running_loss, running_valloss, n_valiter, valinfo,
           set_epoch_train, set_epoch_val, opt_steps, red, fs_path, model_file, n_saves,
           fs_checked, fs_mutated, val_local, val_truth, reports, losses >>

config == << nprocs, use_older_api, environ, argv, no_validation, num_epochs, n_batches,
             logging_interval, n_valsamples, val_losses, train_losses >>

Procs == 0 .. (nprocs - 1)

\* ------------------------------------------------------- strings and int()
Digits == << "0", "1", "2", "3", "4", "5", "6", "7", "8", "9" >>

IsDigit(c) == \E d \in 1 .. 10 : Digits[d] = c

DigitVal(c) == (CHOOSE d \in 1 .. 10 : Digits[d] = c) - 1

RECURSIVE LStrip(_)
LStrip(s) == IF s # << >> /\ Head(s) = " " THEN LStrip(Tail(s)) ELSE s

RECURSIVE RStrip(_)
RStrip(s) == IF s # << >> /\ s[Len(s)] = " " THEN RStrip(SubSeq(s, 1, Len(s) - 1)) ELSE s

RECURSIVE DecVal(_)
DecVal(s) == IF s = << >> THEN 0
             ELSE DecVal(SubSeq(s, 1, Len(s) - 1)) * 10 + DigitVal(s[Len(s)])

AllDigits(s) == s # << >> /\ \A k \in 1 .. Len(s) : IsDigit(s[k])

\* Python's int(str): surrounding blanks are ignored, one optional sign, then
\* decimal digits only.  [ok |-> FALSE] stands for ValueError.
PyInt(s) ==
    LET t == RStrip(LStrip(s))
        signed == t # << >> /\ Head(t) \in {"+", "-"}
        body == IF signed THEN Tail(t) ELSE t
    IN  IF AllDigits(body)
        THEN [ok |-> TRUE,
              val |-> IF signed /\ Head(t) = "-" THEN 0 - DecVal(body) ELSE DecVal(body)]
        ELSE [ok |-> FALSE, val |-> 0]

\* the decimal text a launcher writes for a non-negative number
RECURSIVE ToStr(_)
ToStr(n) == IF n < 10 THEN << Digits[n + 1] >>
            ELSE ToStr(n \div 10) \o << Digits[(n % 10) + 1] >>

\* ------------------------------------------------------- launch environment
\* names main() reads: lines 77-79 (torch.distributed.run / mpirun) and 85-86
EnvRank == IF use_older_api THEN "RANK" ELSE "OMPI_COMM_WORLD_RANK"
EnvWorldSize == IF use_older_api THEN "WORLD_SIZE" ELSE "OMPI_COMM_WORLD_SIZE"

EnvNamesRead(older) == IF older THEN {"RANK", "WORLD_SIZE"}
                       ELSE {"OMPI_COMM_WORLD_LOCAL_RANK", "OMPI_COMM_WORLD_RANK",
                             "OMPI_COMM_WORLD_SIZE"}

\* what a correct launcher gives process p of n (one host, so local = global)
LauncherEnv(older, p, n) ==
    IF older THEN [x \in {"RANK", "WORLD_SIZE"} |->
                      IF x = "RANK" THEN ToStr(p) ELSE ToStr(n)]
    ELSE [x \in {"OMPI_COMM_WORLD_LOCAL_RANK", "OMPI_COMM_WORLD_RANK",
                 "OMPI_COMM_WORLD_SIZE"} |->
             IF x = "OMPI_COMM_WORLD_SIZE" THEN ToStr(n) ELSE ToStr(p)]

\* torch.distributed.launch appends --local_rank=<n>; the newer launchers do not
LauncherArgv(older, p) ==
    IF older THEN [x \in {"local_rank"} |-> ToStr(p)] ELSE [x \in {} |-> << >>]

\* values an arbitrary environment may hold
EnvStrings == { << "0" >>, << "1" >>, << "2" >>, << "-", "1" >>, << " ", "1" >>,
                << "1", ".", "0" >>, << >> }

ArbitraryEnv(older) ==
    UNION { [D -> EnvStrings] : D \in SUBSET EnvNamesRead(older) }

ArbitraryArgv == UNION { [D -> EnvStrings] : D \in SUBSET {"local_rank"} }

Some(n) == << n >>
None == << >>

\* ------------------------------------------------------------ initial state
\* everything main() has before its first statement, given the configuration
InitProgram ==
    /\ pc = [p \in Procs |-> "parse_args"]
    /\ err = [p \in Procs |-> "none"]
    /\ local_rank = [p \in Procs |-> None]
    /\ global_rank = [p \in Procs |-> None]
    /\ world_size = [p \in Procs |-> None]
    /\ coll = [p \in Procs |-> << >>]
    /\ epoch = [p \in Procs |-> 0]
    /\ step = [p \in Procs |-> 0]
    /\ i = [p \in Procs |-> -1]
    /\ running_loss = [p \in Procs |-> 0]
    /\ running_valloss = [p \in Procs |-> 0]
    /\ n_valiter = [p \in Procs |-> 0]
    /\ valinfo = [p \in Procs |-> << 0, 0 >>]
    /\ set_epoch_train = [p \in Procs |-> -1]
    /\ set_epoch_val = [p \in Procs |-> -1]
    /\ opt_steps = [p \in Procs |-> 0]
    /\ red = [k |-> 0, v |-> << 0, 0 >>]
    /\ model_file = "absent"
    /\ n_saves = 0
    /\ fs_checked = {}
    /\ fs_mutated = {}
    /\ val_local = [p \in Procs |-> << 0, 0 >>]
    /\ val_truth = [p \in Procs |-> << 0, 0 >>]
    /\ reports = [p \in Procs |-> << >>]
    /\ losses = [p \in Procs |-> << >>]

\* what a correct launcher of the chosen API gives every process
InitLaunch ==
    /\ environ = [p \in Procs |-> LauncherEnv(use_older_api, p, nprocs)]
    /\ argv = [p \in Procs |-> LauncherArgv(use_older_api, p)]

\* Runs of any shape over one fixed data set: every world size, both APIs, every
\* per-process validation flag, every epoch and batch count, every kind of output
\* path.  No branch of main() reads a loss value or the logging interval.
InitRuns ==
    /\ nprocs \in 1 .. MaxProcs
    /\ use_older_api \in BOOLEAN
    /\ InitLaunch
    /\ no_validation \in [Procs -> BOOLEAN]
    /\ num_epochs \in 0 .. MaxEpochs
    /\ n_batches \in 1 .. MaxSteps
    /\ logging_interval = 1
    /\ n_valsamples = IF \A p \in Procs : no_validation[p] THEN 0 ELSE 1
    /\ val_losses = {LossUnit}
    /\ train_losses = {1}
    /\ fs_path \in {"absent", "dir", "file"}
    /\ InitProgram

\* Validating runs of one epoch over every validation data set: every world size
\* and shard size, every loss per sample, a fresh output path.
InitValData ==
    /\ nprocs \in 1 .. MaxProcs
    /\ use_older_api = FALSE
    /\ InitLaunch
    /\ no_validation = [p \in Procs |-> FALSE]
    /\ num_epochs = 1
    /\ n_batches = MaxSteps
    /\ logging_interval = 1
    /\ n_valsamples \in 1 .. MaxValSamples
    /\ val_losses = {0, LossUnit}
    /\ train_losses = {1}
    /\ fs_path = "absent"
    /\ InitProgram

\* Training runs over every sequence of training losses: every world size, every
\* logging interval from 1 to beyond the number of batches, the most epochs, no
\* validation, a fresh output path.
InitTrainData ==
    /\ nprocs \in 1 .. MaxProcs
    /\ use_older_api = FALSE
    /\ InitLaunch
    /\ no_validation = [p \in Procs |-> TRUE]
    /\ num_epochs = MaxEpochs
    /\ n_batches = MaxSteps + 1
    /\ logging_interval \in 1 .. (MaxSteps + 2)
    /\ n_valsamples = 0
    /\ val_losses = {LossUnit}
    /\ train_losses = {1, 2}
    /\ fs_path = "absent"
    /\ InitProgram

Init == InitRuns \/ InitValData \/ InitTrainData

\* One process of the run is started with an arbitrary environment and command
\* line, the others by the launcher.
InitBoot ==
    /\ nprocs \in 1 .. MaxProcs
    /\ use_older_api \in BOOLEAN
    /\ \E odd \in Procs, e \in ArbitraryEnv(use_older_api),
          a \in IF use_older_api THEN ArbitraryArgv
                ELSE {LauncherArgv(FALSE, 0)} :
          /\ environ = [p \in Procs |->
                          IF p = odd THEN e ELSE LauncherEnv(use_older_api, p, nprocs)]
          /\ argv = [p \in Procs |->
                       IF p = odd THEN a ELSE LauncherArgv(use_older_api, p)]
    /\ no_validation = [p \in Procs |-> FALSE]
    /\ num_epochs = 1
    /\ n_batches = 1
    /\ logging_interval = 1
    /\ n_valsamples = 1
    /\ val_losses = {LossUnit}
    /\ train_losses = {1}
    /\ fs_path = "absent"
    /\ InitProgram

\* ------------------------------------------------------------- collectives
Issue(p, kind) == coll' = [coll EXCEPT ![p] = Append(@, kind)]

Issued(p, kind) == Len(SelectSeq(coll[p], LAMBDA x : x = kind))

\* a collective that returns at once, without waiting for the other members
Matched_NoWait(p) == TRUE

\* a collective matched by its place in the sequence alone, whatever its kind
Matched_IgnoreKind(p) ==
    LET k == Len(coll[p])
    IN  \A q \in Procs : Len(coll[q]) >= k

\* a collective that returns once every other member is at most one collective behind
Matched_Lagging(p) ==
    LET k == Len(coll[p])
    IN  \A q \in Procs : Len(coll[q]) >= k - 1

\* every member has issued the collective p is waiting in, and it is the same one
Matched(p) ==
    LET k == Len(coll[p])
    IN  \A q \in Procs : Len(coll[q]) >= k /\ coll[q][k] = coll[p][k]

\* env:// rendezvous of lines 88-93: the ranks passed are 0 .. world_size-1, each
\* once, and world_size is the number of members
JoinArgsOk ==
    use_older_api =>
        \A q \in Procs :
            /\ world_size[q] = Some(nprocs)
            /\ global_rank[q] # None
            /\ global_rank[q][1] \in 0 .. (nprocs - 1)
            /\ \A r \in Procs \ {q} : global_rank[r] # global_rank[q]

\* the collective p waits in can no longer complete: a member issued a different
\* collective at this place, or ended before issuing it, or the join is inconsistent
Broken(p) ==
    LET k == Len(coll[p])
    IN  \/ \E q \in Procs :
              \/ Len(coll[q]) >= k /\ coll[q][k] # coll[p][k]
              \/ Len(coll[q]) < k /\ pc[q] \in {"failed", "done"}
        \/ coll[p][k] = "join" /\ Matched(p) /\ ~JoinArgsOk

WaitPcs == {"join_wait", "barrier1_wait", "grad_wait", "ar_wait", "barrier2_wait"}

Raise(p, e) ==
    /\ pc' = [pc EXCEPT ![p] = "failed"]
    /\ err' = [err EXCEPT ![p] = e]

Goto(p, l) ==
    /\ pc' = [pc EXCEPT ![p] = l]
    /\ UNCHANGED err

\* ------------------------------------------------------------------ bootstrap
\* os.environ[name] then int(): KeyError when absent, ValueError when not a number
ReadInt(p, name) ==
    IF name \notin DOMAIN environ[p] THEN [ok |-> FALSE, err |-> "KeyError", val |-> 0]
    ELSE LET r == PyInt(environ[p][name])
         IN  IF r.ok THEN [ok |-> TRUE, err |-> "none", val |-> r.val]
             ELSE [ok |-> FALSE, err |-> "ValueError", val |-> 0]

\* parse_args(): only with --use-older-api is --local_rank parsed (type=int, no
\* default, not required); line 84 then copies it to local_rank
ParseArgs(p) ==
    /\ pc[p] = "parse_args"
    /\ IF ~use_older_api
       THEN Goto(p, "init_pg") /\ UNCHANGED local_rank
       ELSE IF "local_rank" \notin DOMAIN argv[p]
            THEN Goto(p, "read_env") /\ UNCHANGED local_rank
            ELSE LET r == PyInt(argv[p]["local_rank"])
                 IN  IF r.ok
                     THEN /\ Goto(p, "read_env")
                          /\ local_rank' = [local_rank EXCEPT ![p] = Some(r.val)]
                     ELSE Raise(p, "SystemExit") /\ UNCHANGED local_rank
    /\ UNCHANGED << config, reports, losses, global_rank, world_size, coll, epoch, step, i, running_loss,
                    running_valloss, n_valiter, valinfo, set_epoch_train, set_epoch_val,
                    opt_steps, red, fs_path, model_file, n_saves, fs_checked, fs_mutated,
                    val_local, val_truth >>

\* lines 77-79 (after the join) and 85-86 (before it)
ReadEnv(p) ==
    /\ pc[p] = "read_env"
    /\ LET l == ReadInt(p, "OMPI_COMM_WORLD_LOCAL_RANK")
           g == ReadInt(p, EnvRank)
           w == ReadInt(p, EnvWorldSize)
           lok == use_older_api \/ l.ok
       IN  /\ local_rank' = IF ~use_older_api /\ l.ok
                            THEN [local_rank EXCEPT ![p] = Some(l.val)] ELSE local_rank
           /\ global_rank' = IF lok /\ g.ok
                             THEN [global_rank EXCEPT ![p] = Some(g.val)] ELSE global_rank
           /\ world_size' = IF lok /\ g.ok /\ w.ok
                            THEN [world_size EXCEPT ![p] = Some(w.val)] ELSE world_size
           /\ IF ~lok THEN Raise(p, l.err)
              ELSE IF ~g.ok THEN Raise(p, g.err)
              ELSE IF ~w.ok THEN Raise(p, w.err)
              ELSE Goto(p, IF use_older_api THEN "init_pg" ELSE "prep_dir")
    /\ UNCHANGED << config, reports, losses, coll, epoch, step, i, running_loss,
                    running_valloss, n_valiter, valinfo, set_epoch_train, set_epoch_val,
                    opt_steps, red, fs_path, model_file, n_saves, fs_checked, fs_mutated,
                    val_local, val_truth >>

\* dist.init_process_group: line 67 (backend mpi) or lines 88-93 (env://)
InitProcessGroup(p) ==
    /\ pc[p] = "init_pg"
    /\ Issue(p, "join")
    /\ Goto(p, "join_wait")
    /\ UNCHANGED << config, reports, losses, local_rank, global_rank, world_size, epoch, step, i,
                    running_loss, running_valloss, n_valiter, valinfo, set_epoch_train,
                    set_epoch_val, opt_steps, red, fs_path, model_file, n_saves,
                    fs_checked, fs_mutated, val_local, val_truth >>

JoinReturn(p) ==
    /\ pc[p] = "join_wait"
    /\ Matched(p)
    /\ JoinArgsOk
    /\ Goto(p, IF use_older_api THEN "prep_dir" ELSE "read_env")
    /\ UNCHANGED << config, reports, losses, local_rank, global_rank, world_size, coll, epoch, step, i,
                    running_loss, running_valloss, n_valiter, valinfo, set_epoch_train,
                    set_epoch_val, opt_steps, red, fs_path, model_file, n_saves,
                    fs_checked, fs_mutated, val_local, val_truth >>

\* a collective that cannot complete may end in an error of the group layer; the
\* process may as well stay blocked (no step)
CollectiveFail(p) ==
    /\ pc[p] \in WaitPcs
    /\ Broken(p)
    /\ Raise(p, IF pc[p] = "join_wait" THEN "GroupJoinError" ELSE "GroupCommError")
    /\ UNCHANGED << config, reports, losses, local_rank, global_rank, world_size, coll, epoch, step, i,
                    running_loss, running_valloss, n_valiter, valinfo, set_epoch_train,
                    set_epoch_val, opt_steps, red, fs_path, model_file, n_saves,
                    fs_checked, fs_mutated, val_local, val_truth >>

\* ------------------------------------------------------------ program helpers
\* the rank test left out: every rank takes the rank-0 branch
IsPrimary_AnyRank(p) == TRUE

IsPrimary(p) == global_rank[p] = Some(0)

\* validation (and its all_reduce) run by rank 0 alone
Validates_PrimaryOnly(p) == ~no_validation[p] /\ global_rank[p] = Some(0)

Validates(p) == ~no_validation[p]

\* os.path.exists / os.path.isdir / os.makedirs on args.output_path
PathExists(fs) == fs # "absent"

\* the isdir test replaced by the exists test
PathIsDir_Unchecked(fs) == fs # "absent"

PathIsDir(fs) == fs = "dir"
MakeDirs(fs) == "dir"

\* all_reduce with op=MAX
ReduceOp_Max(a, b) ==
    << IF a[1] >= b[1] THEN a[1] ELSE b[1], IF a[2] >= b[2] THEN a[2] ELSE b[2] >>

\* dist.all_reduce's default op, SUM, element-wise on the two-element tensor
ReduceOp(a, b) == << a[1] + b[1], a[2] + b[2] >>

RECURSIVE SumSeq(_)
SumSeq(s) == IF s = << >> THEN 0 ELSE Head(s) + SumSeq(Tail(s))

\* DataLoader(batch_size, drop_last=False): the batches of a shard, in order
RECURSIVE Batches(_)
Batches(samples) ==
    IF samples = << >> THEN << >>
    ELSE IF Len(samples) <= BatchSize THEN << samples >>
    ELSE << SubSeq(samples, 1, BatchSize) >>
         \o Batches(SubSeq(samples, BatchSize + 1, Len(samples)))

\* CrossEntropyLoss(reduction="mean") of one batch
Criterion(batch) == SumSeq(batch) \div Len(batch)

\* lines 190-199: running_valloss after the local pass over the batches
RECURSIVE LocalValLoss(_)
LocalValLoss(bs) == IF bs = << >> THEN 0 ELSE Criterion(Head(bs)) + LocalValLoss(Tail(bs))

\* a loop that stops one iteration early
InRange_OffByOne(e, n) == e < n - 1

\* line 136: epoch is still within range(num_epochs)
InRange(e, n) == e < n

\* a report every interval steps counted from the first one: i = 0, interval, ...
LogsAt_FromFirst(k, interval) == (k % interval) = 0

\* line 178
LogsAt(k, interval) == (k % interval) = (interval - 1)

\* lines 179-184 and 215-231: "[iter=<iter>] ... loss = <num / den>"
Report(kind, iter, num, den) == [kind |-> kind, iter |-> iter, num |-> num, den |-> den]

\* ------------------------------------------------------- output directory
\* lines 106-113
PrepareOutputDir(p) ==
    /\ pc[p] = "prep_dir"
    /\ IF IsPrimary(p)
       THEN LET made == IF PathExists(fs_path) THEN fs_path ELSE MakeDirs(fs_path)
            IN  /\ fs_path' = made
                /\ fs_checked' = fs_checked \cup {p}
                /\ fs_mutated' = IF PathExists(fs_path) THEN fs_mutated
                                 ELSE fs_mutated \cup {p}
                /\ IF PathIsDir(made) THEN Goto(p, "barrier1")
                   ELSE Raise(p, "RuntimeError")
       ELSE /\ Goto(p, "barrier1")
            /\ UNCHANGED << fs_path, fs_checked, fs_mutated >>
    /\ UNCHANGED << config, reports, losses, local_rank, global_rank, world_size, coll, epoch, step, i,
                    running_loss, running_valloss, n_valiter, valinfo, set_epoch_train,
                    set_epoch_val, opt_steps, red, model_file, n_saves,
                    val_local, val_truth >>

\* dist.barrier(): line 114, and lines 245 / 260
BarrierCall(p) ==
    /\ pc[p] \in {"barrier1", "barrier2"}
    /\ Issue(p, "barrier")
    /\ Goto(p, IF pc[p] = "barrier1" THEN "barrier1_wait" ELSE "barrier2_wait")
    /\ UNCHANGED << config, reports, losses, local_rank, global_rank, world_size, epoch, step, i,
                    running_loss, running_valloss, n_valiter, valinfo, set_epoch_train,
                    set_epoch_val, opt_steps, red, fs_path, model_file, n_saves,
                    fs_checked, fs_mutated, val_local, val_truth >>

BarrierReturn(p) ==
    /\ pc[p] \in {"barrier1_wait", "barrier2_wait"}
    /\ Matched(p)
    /\ Goto(p, IF pc[p] = "barrier1_wait" THEN "setup" ELSE "destroy")
    /\ UNCHANGED << config, reports, losses, local_rank, global_rank, world_size, coll, epoch, step, i,
                    running_loss, running_valloss, n_valiter, valinfo, set_epoch_train,
                    set_epoch_val, opt_steps, red, fs_path, model_file, n_saves,
                    fs_checked, fs_mutated, val_local, val_truth >>

\* lines 116-134: prepare_dataset, build_model, DDP, criterion, optimizer, scaler
Setup(p) ==
    /\ pc[p] = "setup"
    /\ Goto(p, "epoch_top")
    /\ epoch' = [epoch EXCEPT ![p] = 0]
    /\ UNCHANGED << config, reports, losses, local_rank, global_rank, world_size, coll, step, i,
                    running_loss, running_valloss, n_valiter, valinfo, set_epoch_train,
                    set_epoch_val, opt_steps, red, fs_path, model_file, n_saves,
                    fs_checked, fs_mutated, val_local, val_truth >>

\* ------------------------------------------------------------- epoch loop
\* lines 136-151.  prepare_dataset returns the variable `sampler`, which line 310
\* rebinds to the validation sampler unless --no-validation is given.
EpochBegin(p) ==
    /\ pc[p] = "epoch_top"
    /\ InRange(epoch[p], num_epochs)
    /\ IF Validates(p)
       THEN /\ set_epoch_val' = [set_epoch_val EXCEPT ![p] = epoch[p]]
            /\ UNCHANGED set_epoch_train
       ELSE /\ set_epoch_train' = [set_epoch_train EXCEPT ![p] = epoch[p]]
            /\ UNCHANGED set_epoch_val
    /\ running_loss' = [running_loss EXCEPT ![p] = 0]
    /\ reports' = [reports EXCEPT ![p] = << >>]
    /\ losses' = [losses EXCEPT ![p] = << >>]
    /\ step' = [step EXCEPT ![p] = 0]
    /\ Goto(p, "step_top")
    /\ UNCHANGED << config, local_rank, global_rank, world_size, coll, epoch, i,
                    running_valloss, n_valiter, valinfo,
                    opt_steps, red, fs_path, model_file, n_saves,
                    fs_checked, fs_mutated, val_local, val_truth >>

\* line 136, range exhausted
EpochLoopExit(p) ==
    /\ pc[p] = "epoch_top"
    /\ ~InRange(epoch[p], num_epochs)
    /\ Goto(p, "save")
    /\ UNCHANGED << config, reports, losses, local_rank, global_rank, world_size, coll, epoch, step, i,
                    running_loss, running_valloss, n_valiter, valinfo, set_epoch_train,
                    set_epoch_val, opt_steps, red, fs_path, model_file, n_saves,
                    fs_checked, fs_mutated, val_local, val_truth >>

\* lines 152-163: next batch, optimizer.zero_grad()
StepBegin(p) ==
    /\ pc[p] = "step_top"
    /\ step[p] < n_batches
    /\ i' = [i EXCEPT ![p] = step[p]]
    /\ step' = [step EXCEPT ![p] = @ + 1]
    /\ Goto(p, "fwd_bwd")
    /\ UNCHANGED << config, reports, losses, local_rank, global_rank, world_size, coll, epoch,
                    running_loss, running_valloss, n_valiter, valinfo, set_epoch_train,
                    set_epoch_val, opt_steps, red, fs_path, model_file, n_saves,
                    fs_checked, fs_mutated, val_local, val_truth >>

\* the ranks synchronised by an explicit dist.barrier() in every training step
GradSync_Barrier == "barrier"

\* line 168: the collective backward() runs, DDP's all-reduce of the gradients
GradSync == "grad"

\* lines 165-168: forward, loss, backward; DDP all-reduces the gradients in backward
Backward(p) ==
    /\ pc[p] = "fwd_bwd"
    /\ Issue(p, GradSync)
    /\ Goto(p, "grad_wait")
    /\ UNCHANGED << config, reports, losses, local_rank, global_rank, world_size, epoch, step, i,
                    running_loss, running_valloss, n_valiter, valinfo, set_epoch_train,
                    set_epoch_val, opt_steps, red, fs_path, model_file, n_saves,
                    fs_checked, fs_mutated, val_local, val_truth >>

GradSyncReturn(p) ==
    /\ pc[p] = "grad_wait"
    /\ Matched(p)
    /\ Goto(p, "opt_step")
    /\ UNCHANGED << config, reports, losses, local_rank, global_rank, world_size, coll, epoch, step, i,
                    running_loss, running_valloss, n_valiter, valinfo, set_epoch_train,
                    set_epoch_val, opt_steps, red, fs_path, model_file, n_saves,
                    fs_checked, fs_mutated, val_local, val_truth >>

\* lines 169-184: scaler.step(optimizer), scaler.update(); then rank 0 alone adds
\* loss.item() to running_loss and, at the steps line 178 selects, prints
\* running_loss / (i+1)
OptimizerStep(p) ==
    /\ pc[p] = "opt_step"
    /\ opt_steps' = [opt_steps EXCEPT ![p] = @ + 1]
    /\ IF IsPrimary(p)
       THEN \E l \in train_losses :
               /\ running_loss' = [running_loss EXCEPT ![p] = @ + l]
               /\ losses' = [losses EXCEPT ![p] = Append(@, l)]
               /\ reports' = IF LogsAt(i[p], logging_interval)
                             THEN [reports EXCEPT ![p] =
                                      Append(@, Report("progress", i[p] + 1,
                                                       running_loss[p] + l, i[p] + 1))]
                             ELSE reports
       ELSE UNCHANGED << running_loss, losses, reports >>
    /\ Goto(p, "step_top")
    /\ UNCHANGED << config, local_rank, global_rank, world_size, coll, epoch, step, i,
                    running_valloss, n_valiter, valinfo, set_epoch_train,
                    set_epoch_val, red, fs_path, model_file, n_saves,
                    fs_checked, fs_mutated, val_local, val_truth >>

\* ------------------------------------------------------------- validation
\* lines 189-203: the local pass over this rank's validation shard
ValidationPass(p) ==
    /\ pc[p] = "step_top"
    /\ step[p] >= n_batches
    /\ Validates(p)
    /\ \E samples \in [1 .. n_valsamples -> val_losses] :
          LET bs == Batches(samples)
              local == << LocalValLoss(bs), Len(bs) >>
          IN  /\ running_valloss' = [running_valloss EXCEPT ![p] = local[1]]
              /\ n_valiter' = [n_valiter EXCEPT ![p] = local[2]]
              /\ valinfo' = [valinfo EXCEPT ![p] = local]
              /\ val_local' = [val_local EXCEPT ![p] = local]
              /\ val_truth' = [val_truth EXCEPT ![p] = << SumSeq(samples), Len(samples) >>]
    /\ Goto(p, "allreduce")
    /\ UNCHANGED << config, reports, losses, local_rank, global_rank, world_size, coll, epoch, step, i,
                    running_loss, set_epoch_train,
                    set_epoch_val, opt_steps, red, fs_path, model_file, n_saves,
                    fs_checked, fs_mutated >>

\* line 189 with --no-validation
SkipValidation(p) ==
    /\ pc[p] = "step_top"
    /\ step[p] >= n_batches
    /\ ~Validates(p)
    /\ Goto(p, "epoch_end")
    /\ UNCHANGED << config, reports, losses, local_rank, global_rank, world_size, coll, epoch, step, i,
                    running_loss, running_valloss, n_valiter, valinfo, set_epoch_train,
                    set_epoch_val, opt_steps, red, fs_path, model_file, n_saves,
                    fs_checked, fs_mutated, val_local, val_truth >>

\* the contribution of p joins the sum of the all_reduce with index k
Contribute(k, v) ==
    IF red.k = k THEN [k |-> k, v |-> ReduceOp(red.v, v)] ELSE [k |-> k, v |-> v]

\* line 204, the call
AllReduceCall(p) ==
    /\ pc[p] = "allreduce"
    /\ red' = Contribute(Len(coll[p]) + 1, valinfo[p])
    /\ Issue(p, "all_reduce")
    /\ Goto(p, "ar_wait")
    /\ UNCHANGED << config, reports, losses, local_rank, global_rank, world_size, epoch, step, i,
                    running_loss, running_valloss, n_valiter, valinfo, set_epoch_train,
                    set_epoch_val, opt_steps, fs_path, model_file, n_saves,
                    fs_checked, fs_mutated, val_local, val_truth >>

\* line 204, the return, and lines 205-206
AllReduceReturn(p) ==
    /\ pc[p] = "ar_wait"
    /\ Matched(p)
    /\ valinfo' = [valinfo EXCEPT ![p] = red.v]
    /\ running_valloss' = [running_valloss EXCEPT ![p] = red.v[1]]
    /\ n_valiter' = [n_valiter EXCEPT ![p] = red.v[2]]
    /\ Goto(p, "epoch_end")
    /\ UNCHANGED << config, reports, losses, local_rank, global_rank, world_size, coll, epoch, step, i,
                    running_loss, set_epoch_train,
                    set_epoch_val, opt_steps, red, fs_path, model_file, n_saves,
                    fs_checked, fs_mutated, val_local, val_truth >>

\* lines 208-231: a rank other than 0 continues; rank 0 formats the summary, and
\* `duration*1000. / i` divides by the index of the last batch
EpochSummary(p) ==
    /\ pc[p] = "epoch_end"
    /\ IF IsPrimary(p) /\ i[p] = 0
       THEN Raise(p, "ZeroDivisionError") /\ UNCHANGED << epoch, reports >>
       ELSE /\ Goto(p, "epoch_top")
            /\ epoch' = [epoch EXCEPT ![p] = @ + 1]
            /\ reports' = IF IsPrimary(p)
                          THEN [reports EXCEPT ![p] =
                                   Append(@, Report("summary", i[p] + 1,
                                                    running_loss[p], i[p] + 1))]
                          ELSE reports
    /\ UNCHANGED << config, losses, local_rank, global_rank, world_size, coll, step, i,
                    running_loss, running_valloss, n_valiter, valinfo, set_epoch_train,
                    set_epoch_val, opt_steps, red, fs_path, model_file, n_saves,
                    fs_checked, fs_mutated, val_local, val_truth >>

\* ------------------------------------------------------- save and shutdown
\* lines 233-236: torch.save starts writing model.pth (rank 0 only)
SaveModel(p) ==
    /\ pc[p] = "save"
    /\ IF IsPrimary(p)
       THEN IF PathIsDir(fs_path)
            THEN /\ model_file' = "partial"
                 /\ fs_mutated' = fs_mutated \cup {p}
                 /\ Goto(p, "saving")
            ELSE /\ Raise(p, "OSError")
                 /\ UNCHANGED << model_file, fs_mutated >>
       ELSE /\ Goto(p, "barrier2")
            /\ UNCHANGED << model_file, fs_mutated >>
    /\ UNCHANGED << config, reports, losses, local_rank, global_rank, world_size, coll, epoch, step, i,
                    running_loss, running_valloss, n_valiter, valinfo, set_epoch_train,
                    set_epoch_val, opt_steps, red, fs_path, n_saves,
                    fs_checked, val_local, val_truth >>

\* line 236: torch.save returns, the file is complete
SaveDone(p) ==
    /\ pc[p] = "saving"
    /\ model_file' = "written"
    /\ n_saves' = n_saves + 1
    /\ Goto(p, "barrier2")
    /\ UNCHANGED << config, reports, losses, local_rank, global_rank, world_size, coll, epoch, step, i,
                    running_loss, running_valloss, n_valiter, valinfo, set_epoch_train,
                    set_epoch_val, opt_steps, red, fs_path,
                    fs_checked, fs_mutated, val_local, val_truth >>

\* lines 269-270
DestroyProcessGroup(p) ==
    /\ pc[p] = "destroy"
    /\ Issue(p, "leave")
    /\ Goto(p, "done")
    /\ UNCHANGED << config, reports, losses, local_rank, global_rank, world_size, epoch, step, i,
                    running_loss, running_valloss, n_valiter, valinfo, set_epoch_train,
                    set_epoch_val, opt_steps, red, fs_path, model_file, n_saves,
                    fs_checked, fs_mutated, val_local, val_truth >>

\* ------------------------------------------------------------ specifications
\* one statement (or one return from a collective) of process p
Step(p) ==
    \/ ParseArgs(p)
    \/ ReadEnv(p)
    \/ InitProcessGroup(p)
    \/ JoinReturn(p)
    \/ PrepareOutputDir(p)
    \/ BarrierCall(p)
    \/ BarrierReturn(p)
    \/ Setup(p)
    \/ EpochBegin(p)
    \/ EpochLoopExit(p)
    \/ StepBegin(p)
    \/ Backward(p)
    \/ GradSyncReturn(p)
    \/ OptimizerStep(p)
    \/ ValidationPass(p)
    \/ SkipValidation(p)
    \/ AllReduceCall(p)
    \/ AllReduceReturn(p)
    \/ EpochSummary(p)
    \/ SaveModel(p)
    \/ SaveDone(p)
    \/ DestroyProcessGroup(p)

Next ==
    \/ \E p \in Procs : ParseArgs(p)
    \/ \E p \in Procs : ReadEnv(p)
    \/ \E p \in Procs : InitProcessGroup(p)
    \/ \E p \in Procs : JoinReturn(p)
    \/ \E p \in Procs : PrepareOutputDir(p)
    \/ \E p \in Procs : BarrierCall(p)
    \/ \E p \in Procs : BarrierReturn(p)
    \/ \E p \in Procs : Setup(p)
    \/ \E p \in Procs : EpochBegin(p)
    \/ \E p \in Procs : EpochLoopExit(p)
    \/ \E p \in Procs : StepBegin(p)
    \/ \E p \in Procs : Backward(p)
    \/ \E p \in Procs : GradSyncReturn(p)
    \/ \E p \in Procs : OptimizerStep(p)
    \/ \E p \in Procs : ValidationPass(p)
    \/ \E p \in Procs : SkipValidation(p)
    \/ \E p \in Procs : AllReduceCall(p)
    \/ \E p \in Procs : AllReduceReturn(p)
    \/ \E p \in Procs : EpochSummary(p)
    \/ \E p \in Procs : SaveModel(p)
    \/ \E p \in Procs : SaveDone(p)
    \/ \E p \in Procs : DestroyProcessGroup(p)
    \/ \E p \in Procs : CollectiveFail(p)

Spec == Init /\ [][Next]_vars

\* the start of main() alone, lines 56-93, from an arbitrary launch environment
NextBoot ==
    \/ \E p \in Procs : ParseArgs(p)
    \/ \E p \in Procs : ReadEnv(p)
    \/ \E p \in Procs : InitProcessGroup(p)
    \/ \E p \in Procs : JoinReturn(p)
    \/ \E p \in Procs : CollectiveFail(p)

SpecBoot == InitBoot /\ [][NextBoot]_vars

\* every process that can take a step of its program eventually does; nothing
\* promises that the group layer reports a collective that cannot complete
FairSpec == Spec /\ \A p \in 0 .. (MaxProcs - 1) : WF_vars(p \in Procs /\ Step(p))

\* ================================================================== claims
IsRank0(p) == global_rank[p] = Some(0)

AllFinished == \A p \in Procs : pc[p] = "done"

\* p has returned from the k-th collective it issued
ReturnedFrom(p, k) ==
    \/ Len(coll[p]) > k
    \/ /\ Len(coll[p]) = k
       /\ pc[p] \notin WaitPcs
       /\ err[p] \notin {"GroupCommError", "GroupJoinError"}

IsPrefix(s, t) == Len(s) <= Len(t) /\ s = SubSeq(t, 1, Len(s))

RECURSIVE Times(_, _)
Times(s, n) == IF n <= 0 THEN << >> ELSE s \o Times(s, n - 1)

\* the collectives of a complete run with validation on (v) or off
CanonSeq(v) ==
    << "join", "barrier" >>
    \o Times(Times(<< "grad" >>, n_batches) \o (IF v THEN << "all_reduce" >> ELSE << >>),
             num_epochs)
    \o << "barrier", "leave" >>

MixedValidation == \E p, q \in Procs : no_validation[p] # no_validation[q]

\* p has returned from the validation all_reduce of its current epoch
HoldsResult(p) == pc[p] = "epoch_end" /\ ~no_validation[p]

RECURSIVE TotalLocal(_)
TotalLocal(n) ==
    IF n < 0 THEN << 0, 0 >>
    ELSE << val_local[n][1] + TotalLocal(n - 1)[1], val_local[n][2] + TotalLocal(n - 1)[2] >>

RECURSIVE TotalTruth(_)
TotalTruth(n) ==
    IF n < 0 THEN << 0, 0 >>
    ELSE << val_truth[n][1] + TotalTruth(n - 1)[1], val_truth[n][2] + TotalTruth(n - 1)[2] >>

\* C1: at most one torch.save ever completes, only global rank 0 is ever inside
\* torch.save, and a process that has returned from the final barrier (it is
\* about to destroy the group, or done) sees the one save completed.
C1_CheckpointHandshake ==
    /\ n_saves <= 1
    /\ \A p \in Procs : pc[p] = "saving" => IsRank0(p)
    /\ model_file # "absent" => \E p \in fs_mutated : IsRank0(p)
    /\ \A p \in Procs :
          pc[p] \in {"destroy", "done"} => n_saves = 1 /\ model_file = "written"

C1_Witness ==
    /\ nprocs >= 2
    /\ num_epochs >= 1
    /\ AllFinished
    /\ n_saves = 1

\* C2: only global rank 0 ever tests or changes the output path, and a process
\* that has returned from the first barrier finds the path a directory, rank 0
\* having finished lines 107-113 and called the barrier.
C2_OutputDirPrepared ==
    /\ \A p \in fs_checked \cup fs_mutated : IsRank0(p)
    /\ \A p \in Procs :
          ReturnedFrom(p, 2) =>
              /\ fs_path = "dir"
              /\ \E q \in Procs : IsRank0(q) /\ Len(coll[q]) >= 2

C2_Witness ==
    /\ nprocs >= 2
    /\ fs_mutated # {}
    /\ \E p \in Procs : ~IsRank0(p) /\ pc[p] = "setup"

\* C3 (as claimed): once rank 0 has raised the output-path error, eventually no
\* process is waiting in a collective.
C3_NoRankHangs ==
    (\E p \in Procs : err[p] = "RuntimeError") ~> (\A p \in Procs : pc[p] \notin WaitPcs)

\* what holds of a run while its output path is a regular file: nothing has been
\* written, and rank 0 is at or before line 111, or has raised RuntimeError there,
\* without having called a barrier
C4_State ==
    fs_path = "file" =>
        /\ model_file = "absent"
        /\ n_saves = 0
        /\ fs_mutated = {}
        /\ \A p \in Procs :
              IsRank0(p) =>
                  /\ Issued(p, "barrier") = 0
                  /\ pc[p] \in {"read_env", "init_pg", "join_wait", "prep_dir", "failed"}
                  /\ pc[p] = "failed" => err[p] = "RuntimeError"

\* C4: while the output path is a regular file nothing is written (no directory,
\* no model file, no save), rank 0 gets no further than line 111, where it raises
\* RuntimeError before calling any barrier; and the path stays a regular file.
C4_FileOutputPath == [] C4_State /\ [][fs_path = "file" => fs_path' = "file"]_vars

C4_Witness ==
    /\ nprocs >= 2
    /\ fs_path = "file"
    /\ \E p \in Procs : IsRank0(p) /\ err[p] = "RuntimeError"
    /\ \E p \in Procs : pc[p] = "barrier1_wait"

\* C5: the collectives a process has issued are always a prefix of the sequence
\* join, barrier, (n_batches gradient syncs, then one all_reduce if it validates)
\* per epoch, barrier, leave; a finished process has issued exactly that sequence;
\* so with the same options on all ranks any two ranks agree on the order.
C5_CollectiveOrdering ==
    /\ \A p \in Procs :
          /\ IsPrefix(coll[p], CanonSeq(~no_validation[p]))
          /\ pc[p] = "done" => coll[p] = CanonSeq(~no_validation[p])
    /\ ~MixedValidation =>
          \A p, q \in Procs : IsPrefix(coll[p], coll[q]) \/ IsPrefix(coll[q], coll[p])

C5_Witness ==
    /\ nprocs >= 2
    /\ num_epochs >= 2
    /\ \A p \in Procs : ~no_validation[p]
    /\ AllFinished

\* C6 (as claimed): with validation on for some ranks and off for others the run
\* never reaches the state where all ranks are finished.
C6_MixedNeverFinishes == MixedValidation => ~AllFinished

\* C6 (amended): the same for runs of at least one epoch, where moreover no rank
\* finishes at all: a validating rank never returns from its first validation
\* all_reduce, and a rank without validation never returns from the collective it
\* issues after the first epoch's gradient syncs.
C6_MixedDeadlock ==
    (MixedValidation /\ num_epochs >= 1) =>
        \A p \in Procs :
            /\ pc[p] \notin {"destroy", "done"}
            /\ ~ReturnedFrom(p, n_batches + 3)
            /\ ~no_validation[p] => pc[p] # "epoch_end" /\ epoch[p] = 0

C6_Witness ==
    /\ MixedValidation
    /\ num_epochs >= 1
    /\ \E p, q \in Procs :
          /\ ~no_validation[p] /\ pc[p] = "ar_wait"
          /\ no_validation[q] /\ pc[q] = "barrier2_wait"

\* C7: a process that has returned from the validation all_reduce holds, in
\* valinfo and in (running_valloss, n_valiter), the sum over all ranks of the
\* vectors the ranks computed locally, whichever rank it is and in whatever order
\* the ranks called all_reduce; two such processes hold the same vector.
C7_ValidationAggregation ==
    \A p \in Procs :
        HoldsResult(p) =>
            /\ valinfo[p] = TotalLocal(nprocs - 1)
            /\ << running_valloss[p], n_valiter[p] >> = TotalLocal(nprocs - 1)
            /\ \A q \in Procs : HoldsResult(q) => valinfo[q] = valinfo[p]

C7_Witness ==
    /\ nprocs >= 2
    /\ \A p \in Procs : HoldsResult(p)
    /\ \E p, q \in Procs : val_local[p][1] # val_local[q][1]

\* C8 (as claimed): the validation loss obtained from the reduced vector,
\* running_valloss / n_valiter, is the mean loss over all validation samples of
\* all ranks (the two fractions are compared by cross-multiplication).
C8_GlobalMean ==
    \A p \in Procs :
        HoldsResult(p) =>
            running_valloss[p] * TotalTruth(nprocs - 1)[2]
                = TotalTruth(nprocs - 1)[1] * n_valiter[p]

\* C9 (as claimed): a process whose identity is resolved holds the numbers its
\* environment and command line spell, and they are in range.
C9_RankResolution ==
    \A p \in Procs :
        world_size[p] # None =>
            /\ global_rank[p] = Some(PyInt(environ[p][EnvRank]).val)
            /\ world_size[p] = Some(PyInt(environ[p][EnvWorldSize]).val)
            /\ local_rank[p] # None
            /\ local_rank[p][1] >= 0
            /\ global_rank[p][1] >= 0
            /\ global_rank[p][1] < world_size[p][1]
            /\ world_size[p][1] >= 1

\* C10 (as claimed): a process that ended on a configuration error (KeyError or
\* ValueError of lines 77-79 / 85-86, or the argument parser's exit) has not
\* called init_process_group.
C10_ConfigErrorBeforeJoin ==
    \A p \in Procs :
        err[p] \in {"KeyError", "ValueError", "SystemExit"} => Issued(p, "join") = 0

\* p is inside the training loop of its current epoch (lines 152-184)
InTraining(p) == pc[p] \in {"step_top", "fwd_bwd", "grad_wait", "opt_step"}

\* C11 (as claimed): while a process runs the training steps of epoch e, the
\* sampler of the training loader has been given set_epoch(e), with validation
\* enabled as well as disabled.
C11_TrainSamplerReshuffled ==
    \A p \in Procs : InTraining(p) => set_epoch_train[p] = epoch[p]

\* the epoch last passed to sampler.set_epoch (line 145), -1 before the first call
LastSetEpoch(p) ==
    IF set_epoch_train[p] >= set_epoch_val[p] THEN set_epoch_train[p] ELSE set_epoch_val[p]

\* p is inside the body of the epoch loop (lines 137-231)
InEpoch(p) == InTraining(p) \/ pc[p] \in {"allreduce", "ar_wait", "epoch_end"}

\* p has left the epoch loop (lines 233-270)
AfterLoop(p) ==
    pc[p] \in {"save", "saving", "barrier2", "barrier2_wait", "destroy", "done"}

\* training steps of the current epoch that p has completed
StepsDone(p) ==
    IF pc[p] \in {"fwd_bwd", "grad_wait", "opt_step"} THEN step[p] - 1 ELSE step[p]

\* validation all_reduces a process has issued after v epochs
ValidationsAfter(p, v) == IF Validates(p) THEN v ELSE 0

C12_State ==
    \A p \in Procs :
        /\ epoch[p] \in 0 .. num_epochs
        /\ pc[p] = "epoch_top" =>
              /\ LastSetEpoch(p) = epoch[p] - 1
              /\ opt_steps[p] = epoch[p] * n_batches
              /\ Issued(p, "all_reduce") = ValidationsAfter(p, epoch[p])
        /\ InEpoch(p) =>
              /\ epoch[p] < num_epochs
              /\ LastSetEpoch(p) = epoch[p]
              /\ StepsDone(p) \in 0 .. n_batches
              /\ opt_steps[p] = epoch[p] * n_batches + StepsDone(p)
        /\ InTraining(p) => Issued(p, "all_reduce") = ValidationsAfter(p, epoch[p])
        /\ pc[p] \in {"allreduce", "ar_wait"} =>
              /\ Validates(p)
              /\ StepsDone(p) = n_batches
              /\ Issued(p, "all_reduce") = epoch[p] + (IF pc[p] = "ar_wait" THEN 1 ELSE 0)
        /\ pc[p] = "epoch_end" =>
              /\ StepsDone(p) = n_batches
              /\ Issued(p, "all_reduce") = ValidationsAfter(p, epoch[p] + 1)
        /\ AfterLoop(p) =>
              /\ epoch[p] = num_epochs
              /\ LastSetEpoch(p) = num_epochs - 1
              /\ opt_steps[p] = num_epochs * n_batches
              /\ Issued(p, "all_reduce") = ValidationsAfter(p, num_epochs)

\* C12: a process runs the epochs 0, 1, ..., num_epochs-1 in order, one at a time:
\* in epoch e it first calls set_epoch(e), then takes the n_batches training steps,
\* then (with validation on) makes one validation pass with its one all_reduce,
\* and only then moves to epoch e+1; it is past the loop (save, final barrier,
\* done) only with all num_epochs epochs complete.
C12_EpochStateMachine ==
    /\ [] C12_State
    /\ [][\A p \in Procs : epoch'[p] \in {epoch[p], epoch[p] + 1}]_vars

C12_Witness ==
    /\ nprocs >= 2
    /\ num_epochs >= 2
    /\ n_batches >= 2
    /\ \A p \in Procs : Validates(p) /\ pc[p] = "done"

\* C13: in every training step a process zeroes the gradients and runs
\* forward/backward (which starts the gradient sync) with all its earlier steps
\* applied, and applies the optimizer step after the sync; it is at the optimizer
\* step of its k-th batch only when every rank has contributed its k-th
\* gradients, so the optimizer-step counts of two ranks differ by at most one.
C13_GradSyncBeforeStep ==
    \A p \in Procs :
        /\ Issued(p, "grad") - opt_steps[p] \in {0, 1}
        /\ pc[p] \in {"step_top", "fwd_bwd"} => Issued(p, "grad") = opt_steps[p]
        /\ pc[p] \in {"grad_wait", "opt_step"} => Issued(p, "grad") = opt_steps[p] + 1
        /\ \A q \in Procs :
              /\ pc[p] = "opt_step" => Issued(q, "grad") >= Issued(p, "grad")
              /\ opt_steps[p] <= Issued(q, "grad")
              /\ opt_steps[p] - opt_steps[q] <= 1

C13_Witness ==
    /\ nprocs >= 2
    /\ \E p, q \in Procs :
          /\ opt_steps[q] >= 1
          /\ opt_steps[p] = opt_steps[q] + 1
          /\ pc[q] = "opt_step"

\* C14: a process other than global rank 0 never accumulates a loss (its
\* running_loss is 0 throughout, it never evaluates loss.item()) and reports
\* nothing, while rank 0 does both; and it runs the same program: two ranks
\* with the same options have issued the same collectives as far as both have
\* got, and at the same statement of the same batch after the same number of
\* collectives they are in the same epoch with the same number of optimizer
\* steps applied.
C14_PrimaryOnlyBookkeeping ==
    /\ \A p \in Procs :
          ~IsRank0(p) => running_loss[p] = 0 /\ losses[p] = << >> /\ reports[p] = << >>
    /\ \A p \in Procs :
          (IsRank0(p) /\ InEpoch(p)) =>
              Len(losses[p]) = StepsDone(p) /\ running_loss[p] = SumSeq(losses[p])
    /\ \A p \in Procs :
          (IsRank0(p) /\ pc[p] = "epoch_top" /\ epoch[p] >= 1) =>
              reports[p] # << >> /\ reports[p][Len(reports[p])].kind = "summary"
    /\ \A p, q \in Procs :
          (IsRank0(p) /\ no_validation[p] = no_validation[q]) =>
              /\ IsPrefix(coll[p], coll[q]) \/ IsPrefix(coll[q], coll[p])
              /\ (/\ pc[p] = pc[q] /\ pc[p] # "failed"
                  /\ Len(coll[p]) = Len(coll[q]) /\ step[p] = step[q]) =>
                    /\ epoch[p] = epoch[q]
                    /\ i[p] = i[q]
                    /\ opt_steps[p] = opt_steps[q]

C14_Witness ==
    /\ nprocs >= 2
    /\ \E p, q \in Procs :
          /\ IsRank0(p) /\ ~IsRank0(q)
          /\ pc[p] = "done" /\ pc[q] = "done"
          /\ running_loss[p] > 0
          /\ Len(reports[p]) >= 2
          /\ opt_steps[q] >= 2

\* the progress reports due after the steps whose losses are ls: one at each step
\* k (counted from 1) that is a multiple of interval, giving the mean of the
\* first k losses
RECURSIVE ProgressDue(_, _)
ProgressDue(ls, interval) ==
    IF ls = << >> THEN << >>
    ELSE LET k == Len(ls)
         IN  ProgressDue(SubSeq(ls, 1, k - 1), interval)
             \o (IF k % interval = 0
                 THEN << Report("progress", k, SumSeq(ls), k) >> ELSE << >>)

\* C15: on rank 0 the running loss is 0 when the first step of an epoch begins,
\* and while the epoch runs it is the sum of the losses of the steps of this epoch
\* completed so far; the progress reports printed in the epoch are exactly those
\* of the steps k = logging_interval, 2*logging_interval, ... completed so far,
\* each giving (the sum of the losses of steps 1..k of this epoch) / k.
C15_LoggingCadence ==
    \A p \in Procs :
        (IsRank0(p) /\ InEpoch(p)) =>
            /\ step[p] = 0 => running_loss[p] = 0
            /\ Len(losses[p]) = StepsDone(p)
            /\ running_loss[p] = SumSeq(losses[p])
            /\ reports[p] = ProgressDue(losses[p], logging_interval)

C15_Witness ==
    \E p \in Procs :
        /\ IsRank0(p)
        /\ epoch[p] >= 1
        /\ pc[p] = "step_top"
        /\ logging_interval = 2
        /\ Len(losses[p]) >= 3
        /\ losses[p][1] # losses[p][2]
        /\ Len(reports[p]) = 1

\* barriers a process at its place in main() has called: none up to line 113, the
\* one of line 114 from there to the save, both after line 245 / 260
BarriersDue(p) ==
    IF pc[p] \in {"parse_args", "init_pg", "join_wait", "read_env", "prep_dir", "barrier1"}
    THEN 0
    ELSE IF pc[p] \in {"barrier2_wait", "destroy", "done"} THEN 2 ELSE 1

\* C16: a process calls dist.barrier() at most twice, whatever the numbers of
\* epochs and batches: the first call follows rank 0's preparation of the output
\* directory, the second rank 0's save; all through setup, the epochs, their
\* training steps and validation it has called exactly one, and a finished
\* process has called exactly two.
C16_BarriersAtRunBoundaries ==
    \A p \in Procs :
        /\ Issued(p, "barrier") <= 2
        /\ pc[p] # "failed" => Issued(p, "barrier") = BarriersDue(p)
        /\ (pc[p] = "epoch_top" \/ InEpoch(p)) => Issued(p, "barrier") = 1
        /\ (IsRank0(p) /\ Issued(p, "barrier") >= 1) => p \in fs_checked
        /\ (IsRank0(p) /\ Issued(p, "barrier") = 2) => n_saves = 1

C16_Witness ==
    /\ nprocs >= 2
    /\ num_epochs >= 2
    /\ n_batches >= 2
    /\ \A p \in Procs : pc[p] = "done" /\ Issued(p, "barrier") = 2

\* no collective of the run has ended in an error of the group layer
NoCollectiveFailure ==
    \A p \in Procs : err[p] \notin {"GroupCommError", "GroupJoinError"}

\* C17 (as claimed): in a run with the same validation setting on all ranks, an
\* output path that is not a regular file and no collective failure, no process
\* ends in an exception, whatever the world size, the numbers of epochs and of
\* batches per epoch (one batch included) and the logging interval.
C17_NoLocalFailure ==
    (~MixedValidation /\ fs_path # "file" /\ NoCollectiveFailure) =>
        \A p \in Procs : pc[p] # "failed" /\ err[p] = "none"

\* C18: a process calls destroy_process_group at most once, and has called it
\* exactly when it is done; it is then the last collective the process issued,
\* right after its second barrier, which every rank had called (so the process
\* had returned from it), and if the process is rank 0 the save is complete.
C18_GroupTeardown ==
    \A p \in Procs :
        /\ Issued(p, "leave") <= 1
        /\ Issued(p, "leave") = 1 <=> pc[p] = "done"
        /\ Issued(p, "leave") = 1 =>
              /\ Len(coll[p]) >= 2
              /\ coll[p][Len(coll[p])] = "leave"
              /\ coll[p][Len(coll[p]) - 1] = "barrier"
              /\ Issued(p, "barrier") = 2
              /\ \A q \in Procs : Issued(q, "barrier") = 2
              /\ IsRank0(p) => n_saves = 1 /\ model_file = "written"

C18_Witness ==
    /\ nprocs >= 2
    /\ \A p \in Procs : Issued(p, "leave") = 1
    /\ \E p \in Procs : IsRank0(p) /\ pc[p] = "done"

====
